---- MODULE Spec2Model ----
(***************************************************************************)
(* Model of web-app/main.py: a Flask application whose request handlers    *)
(* simulate outages, errors and latency, and whose before_request /        *)
(* after_request hooks record Prometheus metrics, structured log events    *)
(* and a rolling (EWMA) error rate.                                        *)
(*                                                                         *)
(* Units.  Probabilities and the draws of random.random() are integers in  *)
(* hundredths (a draw is 0..99, i.e. [0,1)); latencies are milliseconds.   *)
(* The value of webapp_error_rate is an exact rational [n, d] (n/d), so    *)
(* the arithmetic of the moving average is modelled without rounding.      *)
(* Requests are served by concurrent threads (app.run serves threaded);    *)
(* the steps of one request interleave with the steps of the others.       *)
(***************************************************************************)
EXTENDS Integers, Sequences, FiniteSets, Bags, TLC

\* ------------------------------------------------------------------ bounds
MaxReq == 2                      \* number of requests served, concurrently
MaxUpdates == 4                  \* length of a constant stream of completions

Requests == 1..MaxReq

\* ---------------------------------------------------------- configuration
SERVICE_VERSION == "1.0.0"
OutageThreshold == 5             \* random.random() < 0.05
BaselineLatency == 10            \* baseline_latency = 0.01 s
MinLatency == 100                \* random.uniform(0.1, MAX_LATENCY)

ErrorRates == {0, 20, 100}       \* ERROR_RATE: 0.0, 0.2 (default), 1.0
MaxLatencies == {2000}           \* MAX_LATENCY: 2.0 s (default)
\* Values of the environment variables outside the documented ranges
\* (ERROR_RATE 0.0-1.0, MAX_LATENCY at least the 0.1 s lower sampling bound).
ErrorRateInputs == {-50, 0, 20, 100, 150}
MaxLatencyInputs == {-1000, 0, 50, 100, 2000}
OutageDraws == {4, 5}            \* draws of random.random() in simulate_outage
ErrorDraws == {0, 20, 99}        \* draws of random.random() in simulate_error_rate
LatencyDraws == {0, 99}          \* draws underlying random.uniform

Paths == {"/", "/health", "/metrics", "/version", "/slo-config", "/users",
          "/ai-logs-demo", "/nope"}
RequestKinds == {[method |-> "GET", path |-> p] : p \in Paths}
                   \cup {[method |-> "POST", path |-> "/"]}
NoRequest == [method |-> "-", path |-> "-"]

VARIABLES
    SIM_BAD, ERROR_RATE_ENV, LATENCY_SIMULATION, MAX_LATENCY, OUTAGE_SIMULATION,
    ACTIVE_REQUESTS,     \* gauge webapp_active_requests, by <<method, endpoint>>
    REQUEST_COUNT,       \* counter webapp_requests_total, a bag of label tuples
    REQUEST_DURATION,    \* histogram webapp_request_duration_seconds: observations
    API_RESPONSES,       \* counter api_responses_total, a bag of label tuples
    ERROR_RATE_GAUGE,    \* gauge webapp_error_rate, by version
    pc,                  \* position of each request's thread
    request,             \* the request each thread serves
    status,              \* response.status_code (0: no response yet)
    latency,             \* result of simulate_latency in the handler
    health_result,       \* what health_sim did in the handler
    current_error_rate,  \* after_request's local read of the gauge
    trace,               \* per request: the telemetry calls made, in order
    estimator,           \* the rolling error rate fed a constant stream of outcomes
    http_request_event   \* the SLO fields of an http_request log event

config == <<SIM_BAD, ERROR_RATE_ENV, LATENCY_SIMULATION, MAX_LATENCY, OUTAGE_SIMULATION>>
metricVars == <<ACTIVE_REQUESTS, REQUEST_COUNT, REQUEST_DURATION, API_RESPONSES,
                ERROR_RATE_GAUGE>>
vars == <<SIM_BAD, ERROR_RATE_ENV, LATENCY_SIMULATION, MAX_LATENCY, OUTAGE_SIMULATION,
          ACTIVE_REQUESTS, REQUEST_COUNT, REQUEST_DURATION, API_RESPONSES,
          ERROR_RATE_GAUGE, pc, request, status, latency, health_result,
          current_error_rate, trace, estimator, http_request_event>>

\* ------------------------------------------------------------- rationals
Rat(n, d) == [n |-> n, d |-> d]
RatEq(a, b) == a.n * b.d = b.n * a.d

\* ------------------------------------------------------------ telemetry
LogEv(event_type, span) == <<"log", event_type, span>>
MetricEv(call, labels) == <<"metric", call, labels>>
SpanEv(what, name) == <<"span", what, name>>
SleepEv(ms) == <<"sleep", "time.sleep", ms>>
\* An exception raised by the named call and not caught where it is raised.
RaiseEv(function, arg) == <<"raise", function, arg>>

Count(s, kind, name) == Cardinality({i \in DOMAIN s : s[i][1] = kind /\ s[i][2] = name})

\* --------------------------------------------------------------- routing
url_map(path) ==
    CASE path = "/" -> "root"
      [] path = "/health" -> "health"
      [] path = "/metrics" -> "metrics"
      [] path = "/version" -> "version"
      [] path = "/slo-config" -> "slo_config"
      [] path = "/users" -> "users"
      [] path = "/ai-logs-demo" -> "ai_logs_demo"
      [] OTHER -> "None"

\* request.endpoint: the matched rule's endpoint; None when routing failed
\* (no rule for the path, or a rule that does not accept the method).
request_endpoint(k) == IF k.method = "GET" THEN url_map(k.path) ELSE "None"

\* endpoint = request.endpoint or 'unknown'
endpoint_label(k) == IF request_endpoint(k) = "None" THEN "unknown" ELSE request_endpoint(k)

ActiveLabels == {<<k.method, endpoint_label(k)>> : k \in RequestKinds}


\* ------------------------------------------------- prometheus primitives
\* Gauge.inc / Gauge.dec / Counter.inc / Histogram.observe: each is one
\* lock-protected update of the labelled child.
gauge_inc_Twice(g, key) == [g EXCEPT ![key] = @ + 2]

gauge_inc(g, key) == [g EXCEPT ![key] = @ + 1]

gauge_dec_Missing(g, key) == g

gauge_dec(g, key) == [g EXCEPT ![key] = @ - 1]

counter_inc_Twice(c, key) == c (+) SetToBag({key}) (+) SetToBag({key})

counter_inc(c, key) == c (+) SetToBag({key})

histogram_observe(h, key) == h (+) SetToBag({key})

\* ------------------------------------------------- SLO simulation functions
\* random.uniform(a, b) = a + (b - a) * random.random()
uniform(a, b, u) == a + ((b - a) * u) \div 100

simulate_latency_NoSleep(u) ==
    IF LATENCY_SIMULATION /\ SIM_BAD
    THEN LET l == uniform(MinLatency, MAX_LATENCY, u)
         IN  [latency |-> l, simulated |-> TRUE, slept |-> 0, raised |-> FALSE,
              events |-> <<SpanEv("open", "simulate_latency"),
                           LogEv("latency_simulation", "simulate_latency"),
                           SpanEv("close", "simulate_latency")>>]
    ELSE [latency |-> BaselineLatency, simulated |-> FALSE, slept |-> 0,
          raised |-> FALSE,
          events |-> <<SpanEv("open", "simulate_latency"),
                       LogEv("latency_simulation", "simulate_latency"),
                       SpanEv("close", "simulate_latency")>>]

simulate_latency(u) ==
    IF LATENCY_SIMULATION /\ SIM_BAD
    THEN LET l == uniform(MinLatency, MAX_LATENCY, u)
         IN  IF l < 0
             THEN \* time.sleep raises ValueError for a negative length
                  [latency |-> l, simulated |-> TRUE, slept |-> 0, raised |-> TRUE,
                   events |-> <<SpanEv("open", "simulate_latency"),
                                LogEv("latency_simulation", "simulate_latency"),
                                RaiseEv("time.sleep", l),
                                SpanEv("error", "simulate_latency"),
                                SpanEv("close", "simulate_latency")>>]
             ELSE [latency |-> l, simulated |-> TRUE, slept |-> l, raised |-> FALSE,
                   events |-> <<SpanEv("open", "simulate_latency"),
                                LogEv("latency_simulation", "simulate_latency"),
                                SleepEv(l),
                                SpanEv("close", "simulate_latency")>>]
    ELSE [latency |-> BaselineLatency, simulated |-> FALSE, slept |-> 0,
          raised |-> FALSE,
          events |-> <<SpanEv("open", "simulate_latency"),
                       LogEv("latency_simulation", "simulate_latency"),
                       SpanEv("close", "simulate_latency")>>]

\* draws: the values random.random() returned inside the call (none, or one)
simulate_error_rate_NoSwitch(u) == [result |-> u < ERROR_RATE_ENV, draws |-> <<u>>]

simulate_error_rate_Inclusive(u) ==
    IF SIM_BAD
    THEN [result |-> u <= ERROR_RATE_ENV, draws |-> <<u>>]
    ELSE [result |-> FALSE, draws |-> <<>>]

simulate_error_rate(u) ==
    IF SIM_BAD
    THEN [result |-> u < ERROR_RATE_ENV, draws |-> <<u>>]
    ELSE [result |-> FALSE, draws |-> <<>>]

simulate_outage_IgnoresFlag(u) ==
    IF SIM_BAD
    THEN [result |-> u < OutageThreshold, draws |-> <<u>>]
    ELSE [result |-> FALSE, draws |-> <<>>]

simulate_outage(u) ==
    IF OUTAGE_SIMULATION /\ SIM_BAD
    THEN [result |-> u < OutageThreshold, draws |-> <<u>>]
    ELSE [result |-> FALSE, draws |-> <<>>]

NoHealth ==
    [called |-> FALSE, healthy |-> TRUE, failure_type |-> "-",
     outage_draws |-> <<>>, error_called |-> FALSE, error_draws |-> <<>>,
     events |-> <<>>]

health_sim_ErrorFirst(uo, ue) ==
    LET e == simulate_error_rate(ue)
        o == simulate_outage(uo)
    IN  IF e.result
        THEN [called |-> TRUE, healthy |-> FALSE, failure_type |-> "error_rate",
              outage_draws |-> o.draws, error_called |-> TRUE, error_draws |-> e.draws,
              events |-> <<SpanEv("open", "health_simulation"),
                           SpanEv("open", "simulate_error_rate"),
                           SpanEv("close", "simulate_error_rate"),
                           SpanEv("open", "simulate_outage"),
                           SpanEv("close", "simulate_outage"),
                           LogEv("system_failure:error_rate", "health_simulation"),
                           MetricEv("SLO_VIOLATIONS.inc", <<"error_rate", "medium", "system">>),
                           SpanEv("close", "health_simulation")>>]
        ELSE IF o.result
        THEN [called |-> TRUE, healthy |-> FALSE, failure_type |-> "outage",
              outage_draws |-> o.draws, error_called |-> TRUE, error_draws |-> e.draws,
              events |-> <<SpanEv("open", "health_simulation"),
                           SpanEv("open", "simulate_error_rate"),
                           SpanEv("close", "simulate_error_rate"),
                           SpanEv("open", "simulate_outage"),
                           SpanEv("close", "simulate_outage"),
                           LogEv("system_failure:outage", "health_simulation"),
                           MetricEv("SLO_VIOLATIONS.inc", <<"outage", "critical", "system">>),
                           SpanEv("close", "health_simulation")>>]
        ELSE [called |-> TRUE, healthy |-> TRUE, failure_type |-> "none",
              outage_draws |-> o.draws, error_called |-> TRUE, error_draws |-> e.draws,
              events |-> <<SpanEv("open", "health_simulation"),
                           SpanEv("open", "simulate_error_rate"),
                           SpanEv("close", "simulate_error_rate"),
                           SpanEv("open", "simulate_outage"),
                           SpanEv("close", "simulate_outage"),
                           LogEv("system_health", "health_simulation"),
                           SpanEv("close", "health_simulation")>>]

health_sim_SwappedLabels(uo, ue) ==
    LET o == simulate_outage(uo)
        e == simulate_error_rate(ue)   \* used only where the code calls it
    IN  IF o.result
        THEN [called |-> TRUE, healthy |-> FALSE, failure_type |-> "outage",
              outage_draws |-> o.draws, error_called |-> FALSE, error_draws |-> <<>>,
              events |-> <<SpanEv("open", "health_simulation"),
                           SpanEv("open", "simulate_outage"),
                           SpanEv("close", "simulate_outage"),
                           LogEv("system_failure:outage", "health_simulation"),
                           MetricEv("SLO_VIOLATIONS.inc", <<"error_rate", "medium", "system">>),
                           SpanEv("close", "health_simulation")>>]
        ELSE IF e.result
        THEN [called |-> TRUE, healthy |-> FALSE, failure_type |-> "error_rate",
              outage_draws |-> o.draws, error_called |-> TRUE, error_draws |-> e.draws,
              events |-> <<SpanEv("open", "health_simulation"),
                           SpanEv("open", "simulate_outage"),
                           SpanEv("close", "simulate_outage"),
                           SpanEv("open", "simulate_error_rate"),
                           SpanEv("close", "simulate_error_rate"),
                           LogEv("system_failure:error_rate", "health_simulation"),
                           MetricEv("SLO_VIOLATIONS.inc", <<"outage", "critical", "system">>),
                           SpanEv("close", "health_simulation")>>]
        ELSE [called |-> TRUE, healthy |-> TRUE, failure_type |-> "none",
              outage_draws |-> o.draws, error_called |-> TRUE, error_draws |-> e.draws,
              events |-> <<SpanEv("open", "health_simulation"),
                           SpanEv("open", "simulate_outage"),
                           SpanEv("close", "simulate_outage"),
                           SpanEv("open", "simulate_error_rate"),
                           SpanEv("close", "simulate_error_rate"),
                           LogEv("system_health", "health_simulation"),
                           SpanEv("close", "health_simulation")>>]

health_sim(uo, ue) ==
    LET o == simulate_outage(uo)
        e == simulate_error_rate(ue)   \* used only where the code calls it
    IN  IF o.result
        THEN [called |-> TRUE, healthy |-> FALSE, failure_type |-> "outage",
              outage_draws |-> o.draws, error_called |-> FALSE, error_draws |-> <<>>,
              events |-> <<SpanEv("open", "health_simulation"),
                           SpanEv("open", "simulate_outage"),
                           SpanEv("close", "simulate_outage"),
                           LogEv("system_failure:outage", "health_simulation"),
                           MetricEv("SLO_VIOLATIONS.inc", <<"outage", "critical", "system">>),
                           SpanEv("close", "health_simulation")>>]
        ELSE IF e.result
        THEN [called |-> TRUE, healthy |-> FALSE, failure_type |-> "error_rate",
              outage_draws |-> o.draws, error_called |-> TRUE, error_draws |-> e.draws,
              events |-> <<SpanEv("open", "health_simulation"),
                           SpanEv("open", "simulate_outage"),
                           SpanEv("close", "simulate_outage"),
                           SpanEv("open", "simulate_error_rate"),
                           SpanEv("close", "simulate_error_rate"),
                           LogEv("system_failure:error_rate", "health_simulation"),
                           MetricEv("SLO_VIOLATIONS.inc", <<"error_rate", "medium", "system">>),
                           SpanEv("close", "health_simulation")>>]
        ELSE [called |-> TRUE, healthy |-> TRUE, failure_type |-> "none",
              outage_draws |-> o.draws, error_called |-> TRUE, error_draws |-> e.draws,
              events |-> <<SpanEv("open", "health_simulation"),
                           SpanEv("open", "simulate_outage"),
                           SpanEv("close", "simulate_outage"),
                           SpanEv("open", "simulate_error_rate"),
                           SpanEv("close", "simulate_error_rate"),
                           LogEv("system_health", "health_simulation"),
                           SpanEv("close", "health_simulation")>>]

\* --------------------------------------------- rolling error rate (EWMA)
is_error_ServerOnly(status_code) == status_code >= 500

is_error(status_code) == status_code >= 400

\* new_rate = current_error_rate * 0.9 + (1.0 if is_error else 0.0) * 0.1
ewma_NoDecay(current, err) ==
    Rat(current.n * 10 + (IF err THEN current.d ELSE 0), current.d * 10)

ewma_Subtract(current, err) ==
    Rat(current.n * 9 - (IF err THEN current.d ELSE 0), current.d * 10)

ewma(current, err) == Rat(current.n * 9 + (IF err THEN current.d ELSE 0), current.d * 10)

\* if endpoint != 'metrics':  # Don't count metrics endpoint
counts_toward_error_rate_All(endpoint) == TRUE

counts_toward_error_rate(endpoint) == endpoint # "metrics"

api_status(status_code) ==
    IF 200 <= status_code /\ status_code < 400 THEN "success" ELSE "error"


\* ------------------------------------------------------------------ Init
NoLatency == [latency |-> 0, simulated |-> FALSE, slept |-> 0, raised |-> FALSE,
              events |-> <<>>]
Zero == Rat(0, 1)

\* ------------------------------------------- the http_request log event
\* Durations are in milliseconds (duration_ms = duration * 1000, so
\* duration < 0.2 is duration_ms < 200 and duration < 1.0 is
\* duration_ms < 1000).
Durations == {100 * k : k \in 0..21} \cup {199, 201, 999, 1001}
StatusCodes == {200, 404, 405, 500, 503}

\* log_http_request: performance.latency_category
performance_latency_category(duration_ms) ==
    IF duration_ms < 200 THEN "fast"
    ELSE IF duration_ms < 1000 THEN "medium" ELSE "slow"

\* log_http_request: performance.is_slo_compliant
is_slo_compliant(duration_ms, status_code) == duration_ms < 1000 /\ status_code < 500

\* after_request: category, the label of latency_category_total and the
\* value of metrics.latency_category
latency_category(duration_ms) ==
    IF duration_ms < 200 THEN "fast"
    ELSE IF duration_ms < 1000 THEN "slow" ELSE "very_slow"

\* after_request: metrics.exceeds_slo
exceeds_slo(duration_ms, status_code) == duration_ms > 1000 \/ status_code >= 500

\* The event log_http_request builds from after_request's arguments.
log_http_request(status_code, duration_ms) ==
    [event_type |-> "http_request",
     http |-> [status_code |-> status_code, duration_ms |-> duration_ms],
     performance |-> [latency_category |-> performance_latency_category(duration_ms),
                      is_slo_compliant |-> is_slo_compliant(duration_ms, status_code)],
     metrics |-> [is_error |-> is_error(status_code),
                  latency_category |-> latency_category(duration_ms),
                  exceeds_slo |-> exceeds_slo(duration_ms, status_code)]]

NoEvent ==
    [event_type |-> "-",
     http |-> [status_code |-> 0, duration_ms |-> 0],
     performance |-> [latency_category |-> "-", is_slo_compliant |-> FALSE],
     metrics |-> [is_error |-> FALSE, latency_category |-> "-", exceeds_slo |-> FALSE]]

\* float(os.getenv(...)): the value of the environment variable is taken as
\* it is, whatever its sign or size.
load_ERROR_RATE(value) == value
load_MAX_LATENCY(value) == value

\* The state after module load: the configuration read from the environment
\* (ERROR_RATE from rates, MAX_LATENCY from latencies), every metric at its
\* initial value, no request received.
InitWith(rates, latencies) ==
    /\ SIM_BAD \in BOOLEAN
    /\ ERROR_RATE_ENV \in {load_ERROR_RATE(x) : x \in rates}
    /\ LATENCY_SIMULATION \in BOOLEAN
    /\ MAX_LATENCY \in {load_MAX_LATENCY(x) : x \in latencies}
    /\ OUTAGE_SIMULATION \in BOOLEAN
    /\ ACTIVE_REQUESTS = [l \in ActiveLabels |-> 0]
    /\ REQUEST_COUNT = EmptyBag
    /\ REQUEST_DURATION = EmptyBag
    /\ API_RESPONSES = EmptyBag
    /\ ERROR_RATE_GAUGE = [v \in {SERVICE_VERSION} |-> Zero]
    /\ pc = [r \in Requests |-> "idle"]
    /\ request = [r \in Requests |-> NoRequest]
    /\ status = [r \in Requests |-> 0]
    /\ latency = [r \in Requests |-> NoLatency]
    /\ health_result = [r \in Requests |-> NoHealth]
    /\ current_error_rate = [r \in Requests |-> Zero]
    /\ trace = [r \in Requests |-> <<>>]
    /\ http_request_event = NoEvent

\* The rolling error rate taken on its own: the value rate_0 it starts from,
\* the outcome is_error every completion of the stream has, the number n of
\* updates made, and the value before and after the latest update.
StartRates == {Rat(k, 10) : k \in 0..10}
NoStream == [rate_0 |-> Zero, is_error |-> FALSE, n |-> 0,
             previous |-> Zero, rate |-> Zero]

Init == InitWith(ErrorRates, MaxLatencies) /\ estimator = NoStream

\* The configuration as the service reports it: the slo_configuration gauge
\* set at module load and the slo_simulation object of the /slo-config
\* response.
SLO_CONFIG_GAUGE ==
    [error_rate |-> ERROR_RATE_ENV, max_latency |-> MAX_LATENCY,
     sim_bad |-> IF SIM_BAD THEN 1 ELSE 0,
     latency_simulation |-> IF LATENCY_SIMULATION THEN 1 ELSE 0,
     outage_simulation |-> IF OUTAGE_SIMULATION THEN 1 ELSE 0]
slo_simulation ==
    [sim_bad |-> SIM_BAD, error_rate |-> ERROR_RATE_ENV,
     latency_simulation |-> LATENCY_SIMULATION, max_latency |-> MAX_LATENCY,
     outage_simulation |-> OUTAGE_SIMULATION]

Emit(r, events) == trace' = [trace EXCEPT ![r] = @ \o events]

\* -------------------------------------------------------- before_request
before_request(r) ==
    /\ pc[r] = "idle"
    /\ \E k \in RequestKinds :
         LET endpoint == endpoint_label(k)
         IN  /\ request' = [request EXCEPT ![r] = k]
             /\ ACTIVE_REQUESTS' = gauge_inc(ACTIVE_REQUESTS, <<k.method, endpoint>>)
             /\ Emit(r, <<MetricEv("ACTIVE_REQUESTS.inc", <<k.method, endpoint>>),
                          LogEv("request_started", "INVALID")>>)
    /\ pc' = [pc EXCEPT ![r] = "dispatch"]
    /\ UNCHANGED <<config, estimator, http_request_event, REQUEST_COUNT, REQUEST_DURATION, API_RESPONSES,
                   ERROR_RATE_GAUGE, status, latency, health_result, current_error_rate>>

\* --------------------------------------------------------------- handlers
Respond(r, code, events) ==
    /\ status' = [status EXCEPT ![r] = code]
    /\ Emit(r, events)
    /\ pc' = [pc EXCEPT ![r] = "responded"]
    /\ UNCHANGED <<config, estimator, http_request_event, metricVars, request, current_error_rate>>

\* The routing layer answers a request that matches no rule (404) or whose
\* method the rule does not accept (405); no view function runs.
routing_error(r) ==
    /\ pc[r] = "dispatch"
    /\ request_endpoint(request[r]) = "None"
    /\ Respond(r, IF url_map(request[r].path) = "None" THEN 404 ELSE 405, <<>>)
    /\ UNCHANGED <<latency, health_result>>

handler_span(endpoint) == IF endpoint = "root" THEN "root_endpoint" ELSE "users_endpoint"

\* The status code a fault-injected view function returns for the result of
\* its health_sim call: root and users answer 503 and health answers 500
\* when it is False, all answer 200 when it is True.
response_status_AlwaysOk(endpoint, healthy) == 200

response_status(endpoint, healthy) ==
    IF healthy THEN 200
    ELSE IF endpoint = "health" THEN 500 ELSE 503

\* The span a view function opens around its body with
\* tracer.start_as_current_span; metrics and slo_config open none, and no
\* view function runs for an unmatched request.
request_span(endpoint) ==
    CASE endpoint = "root" -> "root_endpoint"
      [] endpoint = "health" -> "health_check"
      [] endpoint = "users" -> "users_endpoint"
      [] endpoint = "version" -> "version_endpoint"
      [] endpoint = "ai_logs_demo" -> "ai_logs_demo"
      [] OTHER -> "INVALID"

\* log_event: the trace id and span id written into an event are those of
\* trace.get_current_span().  Outside every span that is the invalid span
\* (ids 0); the spans of one request share the trace of the view's span and
\* each has its own span id.
span_context(r, span) ==
    IF span = "INVALID"
    THEN [trace_id |-> 0, span_id |-> "0x0"]
    ELSE [trace_id |-> r, span_id |-> span]

\* root and users: open the request span and call simulate_latency; the
\* thread is then inside time.sleep (or past the baseline branch).  When
\* time.sleep raises, the exception leaves simulate_latency and the view
\* function, both spans end with status ERROR and the framework answers 500.
enter_simulate_latency(r) ==
    /\ pc[r] = "dispatch"
    /\ request_endpoint(request[r]) \in {"root", "users"}
    /\ \E u \in LatencyDraws :
         LET l == simulate_latency(u)
             span == handler_span(request_endpoint(request[r]))
         IN  /\ latency' = [latency EXCEPT ![r] = l]
             /\ IF l.raised
                THEN /\ Emit(r, <<SpanEv("open", span)>> \o l.events
                                 \o <<SpanEv("error", span), SpanEv("close", span)>>)
                     /\ status' = [status EXCEPT ![r] = 500]
                     /\ pc' = [pc EXCEPT ![r] = "responded"]
                ELSE /\ Emit(r, <<SpanEv("open", span)>>
                                 \o SubSeq(l.events, 1, Len(l.events) - 1))
                     /\ UNCHANGED status
                     /\ pc' = [pc EXCEPT ![r] = "latency"]
    /\ UNCHANGED <<config, estimator, http_request_event, metricVars, request, health_result, current_error_rate>>

LeaveLatency(r) == <<latency[r].events[Len(latency[r].events)]>>

root(r) ==
    /\ pc[r] = "latency"
    /\ request_endpoint(request[r]) = "root"
    /\ \E uo \in OutageDraws, ue \in ErrorDraws :
         LET h == health_sim(uo, ue)
         IN  /\ health_result' = [health_result EXCEPT ![r] = h]
             /\ Respond(r, response_status("root", h.healthy),
                  LeaveLatency(r)
                  \o <<LogEv("business_event:page_view", "root_endpoint"),
                       MetricEv("BUSINESS_EVENTS.inc", <<"page_view", "root", SERVICE_VERSION>>)>>
                  \o h.events
                  \o (IF h.healthy
                      THEN <<LogEv("operation_success", "root_endpoint")>>
                      ELSE <<SpanEv("error", "root_endpoint"),
                             LogEv("system_event:slo_violation", "root_endpoint"),
                             MetricEv("SLO_VIOLATIONS.inc",
                                      <<"service_failure", "critical", "root">>)>>)
                  \o <<SpanEv("close", "root_endpoint")>>)
    /\ UNCHANGED latency

users(r) ==
    /\ pc[r] = "latency"
    /\ request_endpoint(request[r]) = "users"
    /\ \E uo \in OutageDraws, ue \in ErrorDraws :
         LET h == health_sim(uo, ue)
         IN  /\ health_result' = [health_result EXCEPT ![r] = h]
             /\ Respond(r, response_status("users", h.healthy),
                  LeaveLatency(r)
                  \o h.events
                  \o (IF h.healthy
                      THEN <<LogEv("api_success", "users_endpoint")>>
                      ELSE <<SpanEv("error", "users_endpoint"),
                             LogEv("api_failure", "users_endpoint")>>)
                  \o <<SpanEv("close", "users_endpoint")>>)
    /\ UNCHANGED latency

health(r) ==
    /\ pc[r] = "dispatch"
    /\ request_endpoint(request[r]) = "health"
    /\ \E uo \in OutageDraws, ue \in ErrorDraws :
         LET h == health_sim(uo, ue)
         IN  /\ health_result' = [health_result EXCEPT ![r] = h]
             /\ Respond(r, response_status("health", h.healthy),
                  <<SpanEv("open", "health_check")>>
                  \o h.events
                  \o <<LogEv("health_check", "health_check"),
                       MetricEv("HEALTH_STATUS.set", <<SERVICE_VERSION>>)>>
                  \o (IF h.healthy THEN <<>> ELSE <<SpanEv("error", "health_check")>>)
                  \o <<SpanEv("close", "health_check")>>)
    /\ UNCHANGED latency

metrics(r) ==
    /\ pc[r] = "dispatch"
    /\ request_endpoint(request[r]) = "metrics"
    /\ Respond(r, 200, <<>>)
    /\ UNCHANGED <<latency, health_result>>

version_FaultInjected(r) ==
    /\ pc[r] = "dispatch"
    /\ request_endpoint(request[r]) = "version"
    /\ \E uo \in OutageDraws, ue \in ErrorDraws :
         LET h == health_sim(uo, ue)
         IN  /\ health_result' = [health_result EXCEPT ![r] = h]
             /\ Respond(r, response_status("version", h.healthy),
                  <<SpanEv("open", "version_endpoint")>> \o h.events
                  \o <<SpanEv("close", "version_endpoint")>>)
    /\ UNCHANGED latency

version(r) ==
    /\ pc[r] = "dispatch"
    /\ request_endpoint(request[r]) = "version"
    /\ Respond(r, 200, <<SpanEv("open", "version_endpoint"),
                         SpanEv("close", "version_endpoint")>>)
    /\ UNCHANGED <<latency, health_result>>

slo_config(r) ==
    /\ pc[r] = "dispatch"
    /\ request_endpoint(request[r]) = "slo_config"
    /\ Respond(r, 200, <<>>)
    /\ UNCHANGED <<latency, health_result>>

ai_logs_demo(r) ==
    /\ pc[r] = "dispatch"
    /\ request_endpoint(request[r]) = "ai_logs_demo"
    /\ Respond(r, 200, <<SpanEv("open", "ai_logs_demo"),
                         LogEv("demo_event", "ai_logs_demo"),
                         SpanEv("close", "ai_logs_demo")>>)
    /\ UNCHANGED <<latency, health_result>>


\* --------------------------------------------------------- after_request
\* First part of after_request: the gauge decrement, the counters and the
\* histograms, up to the read of the current error rate.  Every one of
\* these calls is a separate lock-protected update and they commute, so
\* they are taken as one step; the read of webapp_error_rate ends the step
\* because the write that uses it is a later statement of the thread.
after_request_record(r) ==
    /\ pc[r] = "responded"
    /\ LET method == request[r].method
           endpoint == endpoint_label(request[r])
           code == status[r]
       IN  /\ ACTIVE_REQUESTS' = gauge_dec(ACTIVE_REQUESTS, <<method, endpoint>>)
           /\ REQUEST_COUNT' =
                counter_inc(REQUEST_COUNT, <<method, endpoint, code, SERVICE_VERSION>>)
           /\ REQUEST_DURATION' =
                histogram_observe(REQUEST_DURATION, <<method, endpoint, SERVICE_VERSION>>)
           /\ API_RESPONSES' =
                counter_inc(API_RESPONSES, <<endpoint, api_status(code), SERVICE_VERSION>>)
           /\ current_error_rate' =
                IF counts_toward_error_rate(endpoint)
                THEN [current_error_rate EXCEPT ![r] = ERROR_RATE_GAUGE[SERVICE_VERSION]]
                ELSE current_error_rate
           /\ Emit(r, <<MetricEv("ACTIVE_REQUESTS.dec", <<method, endpoint>>),
                        MetricEv("REQUEST_COUNT.inc", <<method, endpoint>>),
                        MetricEv("REQUEST_DURATION.observe", <<method, endpoint>>),
                        MetricEv("REQUEST_DURATION_MS.observe", <<method, endpoint>>),
                        MetricEv("LATENCY_CATEGORY.inc", <<endpoint>>),
                        MetricEv("API_RESPONSES.inc", <<endpoint>>)>>
                      \o (IF counts_toward_error_rate(endpoint)
                          THEN <<MetricEv("ERROR_RATE_GAUGE.read", <<SERVICE_VERSION>>)>>
                          ELSE <<>>))
    /\ pc' = [pc EXCEPT ![r] = "recorded"]
    /\ UNCHANGED <<config, estimator, http_request_event, ERROR_RATE_GAUGE, request, status, latency, health_result>>

\* Second part of after_request: the write of the new rate computed from
\* the value read before, then the http_request log event.
after_request_update_Waits(r) ==
    /\ pc[r] = "recorded"
    /\ \A q \in Requests \ {r} : pc[q] # "recorded"
    /\ LET endpoint == endpoint_label(request[r])
       IN  IF counts_toward_error_rate(endpoint)
           THEN /\ ERROR_RATE_GAUGE' =
                     [ERROR_RATE_GAUGE EXCEPT ![SERVICE_VERSION] =
                         ewma(current_error_rate[r], is_error(status[r]))]
                /\ Emit(r, <<MetricEv("ERROR_RATE_GAUGE.set", <<SERVICE_VERSION>>),
                             LogEv("http_request", "INVALID")>>)
           ELSE /\ UNCHANGED ERROR_RATE_GAUGE
                /\ Emit(r, <<LogEv("http_request", "INVALID")>>)
    /\ pc' = [pc EXCEPT ![r] = "done"]
    /\ UNCHANGED <<config, estimator, http_request_event, ACTIVE_REQUESTS, REQUEST_COUNT, REQUEST_DURATION,
                   API_RESPONSES, request, status, latency, health_result,
                   current_error_rate>>

after_request_update(r) ==
    /\ pc[r] = "recorded"
    /\ LET endpoint == endpoint_label(request[r])
       IN  IF counts_toward_error_rate(endpoint)
           THEN /\ ERROR_RATE_GAUGE' =
                     [ERROR_RATE_GAUGE EXCEPT ![SERVICE_VERSION] =
                         ewma(current_error_rate[r], is_error(status[r]))]
                /\ Emit(r, <<MetricEv("ERROR_RATE_GAUGE.set", <<SERVICE_VERSION>>),
                             LogEv("http_request", "INVALID")>>)
           ELSE /\ UNCHANGED ERROR_RATE_GAUGE
                /\ Emit(r, <<LogEv("http_request", "INVALID")>>)
    /\ pc' = [pc EXCEPT ![r] = "done"]
    /\ UNCHANGED <<config, estimator, http_request_event, ACTIVE_REQUESTS, REQUEST_COUNT, REQUEST_DURATION,
                   API_RESPONSES, request, status, latency, health_result,
                   current_error_rate>>

\* ------------------------------------------------- a failing log emitter
\* log_event has no exception handler (lines 213-266) and neither have its
\* callers, so an exception raised while an event is built or written leaves
\* log_event and the function that called it.  The two actions below are
\* before_request and the end of after_request when every log_event call
\* raises.
\* before_request with log_event raising at line 337: the gauge increment of
\* line 334 has happened, the exception leaves before_request, no view
\* function is called and the framework answers 500 Internal Server Error.
before_request_log_fails(r) ==
    /\ pc[r] = "idle"
    /\ \E k \in RequestKinds :
         LET endpoint == endpoint_label(k)
         IN  /\ request' = [request EXCEPT ![r] = k]
             /\ ACTIVE_REQUESTS' = gauge_inc(ACTIVE_REQUESTS, <<k.method, endpoint>>)
             /\ Emit(r, <<MetricEv("ACTIVE_REQUESTS.inc", <<k.method, endpoint>>),
                          RaiseEv("log_event", "request_started")>>)
    /\ status' = [status EXCEPT ![r] = 500]
    /\ pc' = [pc EXCEPT ![r] = "responded"]
    /\ UNCHANGED <<config, estimator, http_request_event, REQUEST_COUNT, REQUEST_DURATION, API_RESPONSES,
                   ERROR_RATE_GAUGE, latency, health_result, current_error_rate>>

\* Second part of after_request with log_http_request raising at line 420:
\* the write of the new rate (417) has happened, the exception leaves
\* after_request while the framework is already answering an error, and the
\* 500 response goes out.
after_request_log_fails(r) ==
    /\ pc[r] = "recorded"
    /\ LET endpoint == endpoint_label(request[r])
       IN  IF counts_toward_error_rate(endpoint)
           THEN /\ ERROR_RATE_GAUGE' =
                     [ERROR_RATE_GAUGE EXCEPT ![SERVICE_VERSION] =
                         ewma(current_error_rate[r], is_error(status[r]))]
                /\ Emit(r, <<MetricEv("ERROR_RATE_GAUGE.set", <<SERVICE_VERSION>>),
                             RaiseEv("log_event", "http_request")>>)
           ELSE /\ UNCHANGED ERROR_RATE_GAUGE
                /\ Emit(r, <<RaiseEv("log_event", "http_request")>>)
    /\ pc' = [pc EXCEPT ![r] = "done"]
    /\ UNCHANGED <<config, estimator, http_request_event, ACTIVE_REQUESTS, REQUEST_COUNT, REQUEST_DURATION,
                   API_RESPONSES, request, status, latency, health_result,
                   current_error_rate>>

\* ------------------------------------------- the update rule on its own
\* One more completion of the stream: lines 414-417 applied to the value the
\* previous completion wrote.
error_rate_update ==
    /\ estimator.n < MaxUpdates
    /\ estimator' = [estimator EXCEPT
                        !.n = @ + 1,
                        !.previous = estimator.rate,
                        !.rate = ewma(estimator.rate, estimator.is_error)]
    /\ UNCHANGED <<config, metricVars, pc, request, status, latency, health_result,
                   current_error_rate, trace, http_request_event>>

\* ------------------------------------- the http_request event on its own
\* The log_http_request call at the end of after_request (lines 420-442)
\* for a response with some status code, some time after g.start_time.
after_request_log ==
    /\ \E status_code \in StatusCodes, duration_ms \in Durations :
          http_request_event' = log_http_request(status_code, duration_ms)
    /\ UNCHANGED <<config, metricVars, pc, request, status, latency, health_result,
                   current_error_rate, trace, estimator>>

\* ------------------------------------------------------------------ Spec
\* One step of the thread that serves request r.
Step(r) ==
    \/ before_request(r)
    \/ routing_error(r)
    \/ enter_simulate_latency(r)
    \/ root(r)
    \/ users(r)
    \/ health(r)
    \/ metrics(r)
    \/ version(r)
    \/ slo_config(r)
    \/ ai_logs_demo(r)
    \/ after_request_record(r)
    \/ after_request_update(r)

\* Every configuration, MaxReq requests served concurrently.
Next == \E r \in Requests : Step(r)

Spec == Init /\ [][Next]_vars

\* Every configuration, one request: what a single request does, whatever
\* the settings and the draws.
NextOne == Step(1)

SpecOne == Init /\ [][NextOne]_vars

\* MaxReq concurrent requests under one fault-injecting configuration
\* (SIM_BAD with the default ERROR_RATE 0.2), which produces healthy
\* responses, simulated faults and routing errors side by side.
InitFaulty ==
    /\ Init
    /\ SIM_BAD
    /\ ERROR_RATE_ENV = 20
    /\ ~LATENCY_SIMULATION
    /\ ~OUTAGE_SIMULATION

SpecFaulty == InitFaulty /\ [][Next]_vars

\* MaxReq concurrent requests while the log emitter is down: every call of
\* log_event raises.
NextLogFailure ==
    \E r \in Requests :
       \/ before_request_log_fails(r)
       \/ after_request_record(r)
       \/ after_request_log_fails(r)

SpecLogFailure == InitFaulty /\ [][NextLogFailure]_vars

\* What the thread of request r does once the request has arrived: the view
\* function (or the routing error) and after_request.
Serve(r) ==
    \/ routing_error(r)
    \/ enter_simulate_latency(r)
    \/ root(r)
    \/ users(r)
    \/ health(r)
    \/ metrics(r)
    \/ version(r)
    \/ slo_config(r)
    \/ ai_logs_demo(r)
    \/ after_request_record(r)
    \/ after_request_update(r)

\* MaxReq concurrent requests with simulated latency (SIM_BAD, latency
\* simulation on, ERROR_RATE 0.2), each served by its own thread of the
\* threaded server.  The scheduler gives every thread that can run a turn:
\* time.sleep returns after the sampled time, and no call on the path waits
\* for another request.  Arrivals are not forced.
InitSlow ==
    /\ Init
    /\ SIM_BAD
    /\ ERROR_RATE_ENV = 20
    /\ LATENCY_SIMULATION
    /\ ~OUTAGE_SIMULATION

Fairness == \A r \in Requests : WF_vars(Serve(r))

SpecFair == InitSlow /\ [][Next]_vars /\ Fairness

\* The update rule of the rolling error rate applied up to MaxUpdates times
\* to a start value in [0, 1], every completion an error or every completion
\* a success.
InitEwma ==
    /\ InitWith({20}, {2000})
    /\ SIM_BAD /\ ~LATENCY_SIMULATION /\ ~OUTAGE_SIMULATION
    /\ \E r0 \in StartRates, e \in BOOLEAN :
          estimator = [rate_0 |-> r0, is_error |-> e, n |-> 0,
                       previous |-> r0, rate |-> r0]

SpecEwma == InitEwma /\ [][error_rate_update]_vars

\* The http_request events of completions with every status code in
\* StatusCodes and every duration in Durations.
SpecHttpLog == InitFaulty /\ [][after_request_log]_vars

\* One request under every configuration the environment can hold, the
\* values outside the documented ranges included.
InitAnyEnv == InitWith(ErrorRateInputs, MaxLatencyInputs) /\ estimator = NoStream

SpecAnyEnv == InitAnyEnv /\ [][NextOne]_vars


\* ======================================================================
\* Properties
\* ======================================================================
Quiescent == \A r \in Requests : pc[r] \in {"idle", "done"}
Completed(r) == pc[r] = "done"
PastRecord(r) == pc[r] \in {"recorded", "done"}
HasEvent(s, kind, name, arg) ==
    \E i \in DOMAIN s : s[i][1] = kind /\ s[i][2] = name /\ s[i][3] = arg
ErrorRate == ERROR_RATE_GAUGE[SERVICE_VERSION]

\* C1: once every request that started has run after_request, the in-flight
\* gauge of every (method, endpoint) label pair is back at its value before
\* the first request (0); a completed request has incremented its label pair
\* exactly once and decremented that same label pair exactly once.
C1_GaugeBalance ==
    /\ Quiescent => \A l \in ActiveLabels : ACTIVE_REQUESTS[l] = 0
    /\ \A r \in Requests :
         Completed(r) =>
            /\ Count(trace[r], "metric", "ACTIVE_REQUESTS.inc") = 1
            /\ Count(trace[r], "metric", "ACTIVE_REQUESTS.dec") = 1
            /\ \A i \in DOMAIN trace[r] :
                 (trace[r][i][1] = "metric" /\ trace[r][i][2] = "ACTIVE_REQUESTS.inc") =>
                    \A j \in DOMAIN trace[r] :
                       (trace[r][j][1] = "metric" /\ trace[r][j][2] = "ACTIVE_REQUESTS.dec")
                       => i < j /\ trace[r][i][3] = trace[r][j][3]

C1_Witness ==
    /\ \A r \in Requests : Completed(r)
    /\ \E r \in Requests : status[r] = 503
    /\ \E r \in Requests : status[r] = 404

\* C2: every request emits its completion telemetry exactly once: one
\* increment of webapp_requests_total, one observation of the duration
\* histogram, one increment of api_responses_total and one http_request log
\* event, whatever the response; the counters hold exactly one sample per
\* request that ran after_request.
C2_CompletionOnce ==
    /\ \A r \in Requests :
         /\ Count(trace[r], "metric", "REQUEST_COUNT.inc") = (IF PastRecord(r) THEN 1 ELSE 0)
         /\ Count(trace[r], "metric", "REQUEST_DURATION.observe") = (IF PastRecord(r) THEN 1 ELSE 0)
         /\ Count(trace[r], "metric", "API_RESPONSES.inc") = (IF PastRecord(r) THEN 1 ELSE 0)
         /\ Count(trace[r], "log", "http_request") = (IF Completed(r) THEN 1 ELSE 0)
    /\ BagCardinality(REQUEST_COUNT) = Cardinality({r \in Requests : PastRecord(r)})
    /\ BagCardinality(REQUEST_DURATION) = Cardinality({r \in Requests : PastRecord(r)})
    /\ BagCardinality(API_RESPONSES) = Cardinality({r \in Requests : PastRecord(r)})
    /\ \A r \in Requests :
         PastRecord(r) =>
            CopiesIn(<<request[r].method, endpoint_label(request[r]), status[r],
                       SERVICE_VERSION>>, REQUEST_COUNT)
              = Cardinality({q \in Requests :
                     /\ PastRecord(q)
                     /\ request[q].method = request[r].method
                     /\ endpoint_label(request[q]) = endpoint_label(request[r])
                     /\ status[q] = status[r]})

C2_Witness ==
    /\ \E r \in Requests : Completed(r) /\ status[r] = 503
    /\ \E r \in Requests : Completed(r) /\ status[r] = 200

\* C3: when the outage draw fires (a draw below 0.05 was taken), health_sim
\* does not call simulate_error_rate, labels the failure 'outage' and returns
\* False; simulate_error_rate is called only after an outage check that
\* returned False.
C3_OutagePrecedence ==
    \A r \in Requests :
       LET h == health_result[r]
           fired == h.outage_draws # <<>> /\ h.outage_draws[1] < 5
       IN  h.called =>
             /\ fired => /\ ~h.error_called
                         /\ h.error_draws = <<>>
                         /\ h.failure_type = "outage"
                         /\ ~h.healthy
                         /\ ~HasEvent(trace[r], "span", "open", "simulate_error_rate")
                         /\ ~HasEvent(trace[r], "log", "system_failure:error_rate",
                                      "health_simulation")
             /\ h.error_called =>
                  /\ ~fired
                  /\ \A j \in DOMAIN trace[r] :
                       ( /\ trace[r][j][1] = "span" /\ trace[r][j][2] = "open"
                         /\ trace[r][j][3] = "simulate_error_rate" ) =>
                          \E i \in 1..(j - 1) :
                             /\ trace[r][i][1] = "span" /\ trace[r][i][2] = "close"
                             /\ trace[r][i][3] = "simulate_outage"

C3_Witness ==
    /\ OUTAGE_SIMULATION /\ SIM_BAD /\ ERROR_RATE_ENV = 100
    /\ \E r \in Requests : health_result[r].called /\ health_result[r].outage_draws = <<4>>

\* C4: with SIM_BAD off, health_sim returns True (no outage, no error) and
\* simulate_latency returns the baseline 0.01 s without sleeping, for every
\* other setting and every draw.
C4_SimBadOff ==
    ~SIM_BAD =>
       \A r \in Requests :
          /\ health_result[r].called =>
                /\ health_result[r].healthy
                /\ health_result[r].failure_type = "none"
          /\ latency[r].events # <<>> =>
                /\ latency[r].latency = 10
                /\ ~latency[r].simulated
                /\ Count(trace[r], "sleep", "time.sleep") = 0

C4_Witness ==
    /\ ~SIM_BAD /\ ERROR_RATE_ENV = 100 /\ OUTAGE_SIMULATION /\ LATENCY_SIMULATION
    /\ \E r \in Requests :
         /\ request_endpoint(request[r]) = "root"
         /\ health_result[r].called
         /\ latency[r].events # <<>>

\* C5: with SIM_BAD on, OUTAGE_SIMULATION off and ERROR_RATE = 1.0, every call
\* of health_sim takes the error-rate branch and returns False; the outage
\* branch is never taken.
C5_ErrorRateOne ==
    (SIM_BAD /\ ~OUTAGE_SIMULATION /\ ERROR_RATE_ENV = 100) =>
       \A r \in Requests :
          health_result[r].called =>
             /\ ~health_result[r].healthy
             /\ health_result[r].error_called
             /\ health_result[r].failure_type = "error_rate"
             /\ health_result[r].outage_draws = <<>>

C5_Witness ==
    /\ SIM_BAD /\ ~OUTAGE_SIMULATION /\ ERROR_RATE_ENV = 100
    /\ \E r \in Requests : health_result[r].called /\ health_result[r].error_draws = <<99>>

\* C6: with ERROR_RATE = 0.0 and OUTAGE_SIMULATION off, health_sim returns
\* True on every call, for every draw, with SIM_BAD on or off.
C6_ErrorRateZero ==
    (ERROR_RATE_ENV = 0 /\ ~OUTAGE_SIMULATION) =>
       \A r \in Requests : health_result[r].called => health_result[r].healthy

C6_Witness ==
    /\ ERROR_RATE_ENV = 0 /\ ~OUTAGE_SIMULATION /\ SIM_BAD /\ LATENCY_SIMULATION
    /\ \E r \in Requests : health_result[r].called /\ health_result[r].error_draws = <<0>>


\* The rates that the completed requests of S can leave behind when their
\* updates are applied to `rate` one after another, in every order.
RECURSIVE SerialRates(_, _)
SerialRates(rate, S) ==
    IF S = {}
    THEN {rate}
    ELSE UNION { SerialRates(Rat(9 * rate.n + (IF status[r] >= 400 THEN rate.d ELSE 0),
                                 10 * rate.d), S \ {r}) : r \in S }

Updaters == {r \in Requests : Completed(r) /\ endpoint_label(request[r]) # "metrics"}

\* C7: the update of the error rate is atomic: when all requests have
\* completed, the rate is the result of applying their updates one after
\* another in some order (no update is lost).
C7_NoLostUpdate ==
    Quiescent => \E x \in SerialRates(Zero, Updaters) : RatEq(ErrorRate, x)

\* C8: before any request has completed, the value of webapp_error_rate for
\* the service version is the configured ERROR_RATE.
C8_InitialRateIsConfigured ==
    (\A r \in Requests : ~Completed(r)) => RatEq(ErrorRate, Rat(ERROR_RATE_ENV, 100))

\* C9: a request on an endpoint other than 'metrics' reads the rate once and
\* writes once the value  read * 0.9 + (1.0 if status >= 400 else 0.0) * 0.1
\* under the service-version label.
C9_EwmaUpdate ==
    [][\A r \in Requests :
         endpoint_label(request[r]) # "metrics" =>
           /\ (pc[r] = "responded" /\ pc'[r] = "recorded") =>
                 current_error_rate'[r] = ERROR_RATE_GAUGE[SERVICE_VERSION]
           /\ (pc[r] = "recorded" /\ pc'[r] = "done") =>
                LET cur == current_error_rate[r]
                    new == ERROR_RATE_GAUGE'[SERVICE_VERSION]
                    e == IF status[r] >= 400 THEN 1 ELSE 0
                IN  /\ new.n * (10 * cur.d) = (9 * cur.n + e * cur.d) * new.d
                    /\ Count(trace'[r], "metric", "ERROR_RATE_GAUGE.read") = 1
                    /\ Count(trace'[r], "metric", "ERROR_RATE_GAUGE.set") = 1
      ]_vars

\* 0.09 = (0 * 0.9 + 0.1) * 0.9: a 404 followed by a 200
C9_Witness ==
    /\ RatEq(ErrorRate, Rat(9, 100))
    /\ \E r \in Requests : Completed(r) /\ status[r] = 404
    /\ \E r \in Requests : Completed(r) /\ status[r] = 200
                              /\ endpoint_label(request[r]) # "metrics"

\* C10: no step of a request to the metrics endpoint changes the error rate
\* or reads it for an update, and the request still records its other
\* completion metrics.
C10_MetricsExcluded ==
    [][\A r \in Requests :
         (request_endpoint(request[r]) = "metrics" /\ pc'[r] # pc[r]) =>
           /\ RatEq(ERROR_RATE_GAUGE'[SERVICE_VERSION], ERROR_RATE_GAUGE[SERVICE_VERSION])
           /\ Count(trace'[r], "metric", "ERROR_RATE_GAUGE.read") = 0
           /\ Count(trace'[r], "metric", "ERROR_RATE_GAUGE.set") = 0
           /\ pc'[r] = "done" =>
                /\ Count(trace'[r], "metric", "ACTIVE_REQUESTS.dec") = 1
                /\ Count(trace'[r], "metric", "REQUEST_COUNT.inc") = 1
                /\ Count(trace'[r], "metric", "REQUEST_DURATION.observe") = 1
                /\ Count(trace'[r], "metric", "API_RESPONSES.inc") = 1
                /\ Count(trace'[r], "log", "http_request") = 1
      ]_vars

C10_Witness ==
    /\ RatEq(ErrorRate, Rat(1, 10))
    /\ \E r \in Requests : Completed(r) /\ request_endpoint(request[r]) = "metrics"
                              /\ status[r] = 200


\* C11: every log event of a request carries the trace id and span id of the
\* span record opened for that request (the correlation id is g.correlation_id
\* in all of them).
C11_CorrelationConsistent ==
    \A r \in Requests :
       \A i \in DOMAIN trace[r] :
          trace[r][i][1] = "log" =>
             span_context(r, trace[r][i][3])
               = span_context(r, request_span(request_endpoint(request[r])))

\* C12: on root and users a request that ends with a fault response has made
\* no business side effect: no page_view event, no business_events_total
\* increment, no simulated-latency sleep; the fault decision precedes them.
C12_HealthGatesHandler ==
    \A r \in Requests :
       ( /\ request_endpoint(request[r]) \in {"root", "users"}
         /\ health_result[r].called ) =>
          /\ ~health_result[r].healthy =>
                /\ Count(trace[r], "log", "business_event:page_view") = 0
                /\ Count(trace[r], "metric", "BUSINESS_EVENTS.inc") = 0
                /\ Count(trace[r], "sleep", "time.sleep") = 0
          /\ \A j \in DOMAIN trace[r] :
                ( \/ (trace[r][j][1] = "metric" /\ trace[r][j][2] = "BUSINESS_EVENTS.inc")
                  \/ (trace[r][j][1] = "log" /\ trace[r][j][2] = "business_event:page_view")
                  \/ trace[r][j][1] = "sleep" ) =>
                   \E i \in 1..(j - 1) :
                      /\ trace[r][i][1] = "span" /\ trace[r][i][2] = "close"
                      /\ trace[r][i][3] = "health_simulation"

\* C13: every request to a routed endpoint opens exactly one request-scope
\* span and closes it exactly once before after_request runs, and that span
\* has status ERROR exactly when the fault decision was unhealthy.
C13_OneRequestSpan ==
    \A r \in Requests :
       ( /\ pc[r] \in {"responded", "recorded", "done"}
         /\ request_endpoint(request[r]) # "None" ) =>
          \E name \in {"root_endpoint", "health_check", "users_endpoint",
                       "version_endpoint", "ai_logs_demo", "metrics", "slo_config"} :
             /\ Cardinality({i \in DOMAIN trace[r] :
                    /\ trace[r][i][1] = "span" /\ trace[r][i][2] = "open"
                    /\ trace[r][i][3] = name}) = 1
             /\ Cardinality({i \in DOMAIN trace[r] :
                    /\ trace[r][i][1] = "span" /\ trace[r][i][2] = "close"
                    /\ trace[r][i][3] = name}) = 1
             /\ (\E i \in DOMAIN trace[r] :
                    /\ trace[r][i][1] = "span" /\ trace[r][i][2] = "error"
                    /\ trace[r][i][3] = name)
                  <=> (health_result[r].called /\ ~health_result[r].healthy)


\* C14: when log_event fails, the metric recorder and the span recorder still
\* run for the request and the response is the one the request would get with
\* a working log emitter: the log failure does not become a failed request.
C14_LogFailureIsolated ==
    \A r \in Requests :
       ( /\ Completed(r)
         /\ \E i \in DOMAIN trace[r] : trace[r][i][1] = "raise" ) =>
          LET endpoint == request_endpoint(request[r])
          IN  /\ Count(trace[r], "metric", "ACTIVE_REQUESTS.dec") = 1
              /\ Count(trace[r], "metric", "REQUEST_COUNT.inc") = 1
              /\ request_span(endpoint) # "INVALID" =>
                    \E i \in DOMAIN trace[r] :
                       /\ trace[r][i][1] = "span" /\ trace[r][i][2] = "close"
                       /\ trace[r][i][3] = request_span(endpoint)
              /\ endpoint \in {"metrics", "version", "slo_config", "ai_logs_demo"}
                    => status[r] = 200
              /\ endpoint \in {"root", "users"} => status[r] \in {200, 503}
              /\ endpoint = "health" => status[r] \in {200, 500}
              /\ endpoint = "None" => status[r] \in {404, 405}


\* C15: with SIM_BAD and LATENCY_SIMULATION on, simulate_latency does not
\* crash whatever MAX_LATENCY is; for MAX_LATENCY <= 0.1 it returns exactly
\* 0.1 and for MAX_LATENCY >= 0.1 a value in [0.1, MAX_LATENCY].
C15_LatencyRangeClamped ==
    \A r \in Requests :
       latency[r].simulated =>
          /\ ~latency[r].raised
          /\ MAX_LATENCY <= 100 => latency[r].latency = 100
          /\ MAX_LATENCY >= 100 =>
                (100 <= latency[r].latency /\ latency[r].latency <= MAX_LATENCY)

\* C16: the configured error rate is clamped into [0, 1] at load, and the
\* slo_configuration gauge and the /slo-config response report the clamped
\* value.
C16_ErrorRateClamped ==
    /\ 0 <= ERROR_RATE_ENV /\ ERROR_RATE_ENV <= 100
    /\ 0 <= SLO_CONFIG_GAUGE.error_rate /\ SLO_CONFIG_GAUGE.error_rate <= 100
    /\ 0 <= slo_simulation.error_rate /\ slo_simulation.error_rate <= 100


\* 9^n, 10^n and the sum over i < n of 9^i * 10^(n-1-i), which is
\* 10^n * 0.1 * (0.9^0 + ... + 0.9^(n-1)).
RECURSIVE Pow(_, _)
Pow(b, n) == IF n = 0 THEN 1 ELSE b * Pow(b, n - 1)
RECURSIVE GeometricSum(_)
GeometricSum(n) == IF n = 0 THEN 0 ELSE 10 * GeometricSum(n - 1) + Pow(9, n - 1)

\* rate = rate_0 * 0.9^n + 0.1 * (0.9^0 + ... + 0.9^(n-1)), both sides over
\* the denominator rate_0.d * 10^n.
ErrorStreamClosedForm ==
    /\ estimator.rate.d = estimator.rate_0.d * Pow(10, estimator.n)
    /\ estimator.rate.n = estimator.rate_0.n * Pow(9, estimator.n)
                            + estimator.rate_0.d * GeometricSum(estimator.n)

IsCompletionTelemetry(e) ==
    \/ e[1] = "metric" /\ e[2] \in {"REQUEST_COUNT.inc", "ERROR_RATE_GAUGE.read",
                                    "ERROR_RATE_GAUGE.set"}
    \/ e[1] = "log" /\ e[2] = "http_request"

\* The thread of request r is inside the time.sleep of simulate_latency.
Sleeping(r) == pc[r] = "latency" /\ latency[r].simulated

\* C18: a request with simulated latency sleeps for the sampled time before
\* any of its completion telemetry and never between the read and the write
\* of the rolling error rate; while it sleeps it has recorded no completion
\* and every other request that has not finished can take its next step.
C18_SleepOutsideCriticalSection ==
    \A r \in Requests :
       /\ (latency[r].simulated /\ pc[r] \in {"latency", "responded", "recorded", "done"}) =>
             \E i \in DOMAIN trace[r] :
                /\ trace[r][i][1] = "sleep"
                /\ trace[r][i][3] = latency[r].latency
                /\ trace[r][i][3] >= 100
       /\ \A i \in DOMAIN trace[r] :
             trace[r][i][1] = "sleep" =>
                \A j \in 1..i : ~IsCompletionTelemetry(trace[r][j])
       /\ Sleeping(r) =>
             /\ \A j \in DOMAIN trace[r] : ~IsCompletionTelemetry(trace[r][j])
             /\ \A q \in Requests \ {r} : pc[q] # "done" => ENABLED Step(q)

C18_Witness ==
    \E r \in Requests, q \in Requests :
       /\ Sleeping(r)
       /\ latency[r].latency > 1000
       /\ pc[q] = "done"
       /\ Count(trace[q], "metric", "ERROR_RATE_GAUGE.set") = 1


\* C19: a request on a fault-injected endpoint goes STARTED, FAULT_EVALUATED,
\* HANDLER_RAN, COMPLETED in this order: the in-flight increment and the
\* request_started event come first, health_sim is evaluated exactly once and
\* before any business logic of the handler, after_request's completion
\* telemetry comes last.
C19_LifecycleOrder ==
    \A r \in Requests :
       ( /\ Completed(r)
         /\ request_endpoint(request[r]) \in {"root", "users", "health"} ) =>
          LET t == trace[r]
              IsBusiness(e) ==
                 \/ e[1] = "log" /\ e[2] \in {"business_event:page_view",
                                              "operation_success", "api_success",
                                              "health_check"}
                 \/ e[1] = "metric" /\ e[2] \in {"BUSINESS_EVENTS.inc", "HEALTH_STATUS.set"}
          IN  /\ t[1][1] = "metric" /\ t[1][2] = "ACTIVE_REQUESTS.inc"
              /\ t[2][1] = "log" /\ t[2][2] = "request_started"
              /\ Cardinality({i \in DOMAIN t :
                     /\ t[i][1] = "span" /\ t[i][2] = "open"
                     /\ t[i][3] = "health_simulation"}) = 1
              /\ \A j \in DOMAIN t :
                    IsBusiness(t[j]) =>
                       \E i \in 1..(j - 1) :
                          /\ t[i][1] = "span" /\ t[i][2] = "close"
                          /\ t[i][3] = "health_simulation"
              /\ \A j \in DOMAIN t :
                    IsCompletionTelemetry(t[j]) =>
                       \A i \in 1..j :
                          (t[i][1] = "span" \/ IsBusiness(t[i])) => i < j
              /\ t[Len(t)][1] = "log" /\ t[Len(t)][2] = "http_request"


C21_RateIsProbability ==
    /\ ErrorRate.d > 0
    /\ 0 <= ErrorRate.n /\ ErrorRate.n <= ErrorRate.d
    /\ \A r \in Requests :
          /\ current_error_rate[r].d > 0
          /\ 0 <= current_error_rate[r].n
          /\ current_error_rate[r].n <= current_error_rate[r].d

C21_Witness ==
    /\ \A r \in Requests : Completed(r)
    /\ \E r \in Requests : status[r] = 503
    /\ \E r \in Requests : status[r] = 200
    /\ ErrorRate.n > 0 /\ ErrorRate.n < ErrorRate.d


\* C22: under fair scheduling of the request threads, every request that has
\* started (before_request has run) eventually completes after_request, and
\* in particular every request whose latency sampling and fault decision are
\* done does; no request waits for another one.
C22_EventuallyCompleted ==
    \A r \in Requests :
       /\ (pc[r] # "idle") ~> Completed(r)
       /\ (pc[r] = "responded") ~> Completed(r)

C22_Witness ==
    \E r \in Requests, q \in Requests :
       /\ Completed(r)
       /\ latency[r].simulated /\ latency[r].latency > 1000
       /\ pc[q] = "recorded"


\* The requests that have run before_request and whose after_request has not
\* yet decremented the gauge, by label pair.
InFlight(l) ==
    {r \in Requests :
        /\ pc[r] \in {"dispatch", "latency", "responded"}
        /\ request[r].method = l[1]
        /\ (IF request_endpoint(request[r]) = "None"
            THEN "unknown" ELSE request_endpoint(request[r])) = l[2]}

\* C23: in every reachable state the in-flight gauge of each (method,
\* endpoint) label pair equals the number of requests with those labels that
\* are between before_request and after_request; it is never negative.
C23_GaugeCountsInFlight ==
    \A l \in ActiveLabels :
       /\ ACTIVE_REQUESTS[l] = Cardinality(InFlight(l))
       /\ ACTIVE_REQUESTS[l] >= 0

C23_Witness ==
    /\ ACTIVE_REQUESTS[<<"GET", "root">>] = 2
    /\ \E r \in Requests : pc[r] = "responded" /\ status[r] = 503


\* The slo_violations_total increments made inside health_sim: those with
\* endpoint label "system".
SystemViolations(t) ==
    {i \in DOMAIN t :
        /\ t[i][1] = "metric" /\ t[i][2] = "SLO_VIOLATIONS.inc"
        /\ t[i][3][3] = "system"}

\* C24: a call of health_sim increments slo_violations_total exactly once
\* when it returns False and not at all when it returns True; the labels are
\* (outage, critical) when the outage draw fired and (error_rate, medium)
\* when the error-rate draw fired, and the system_failure event logged is
\* the one of the same failure type.
C24_ViolationCounted ==
    \A r \in Requests :
       health_result[r].called =>
          LET t == trace[r]
              h == health_result[r]
              outageFired == h.outage_draws # <<>> /\ h.outage_draws[1] < 5
              errorFired == /\ ~outageFired
                            /\ h.error_draws # <<>>
                            /\ h.error_draws[1] < ERROR_RATE_ENV
          IN  /\ Cardinality(SystemViolations(t)) = (IF h.healthy THEN 0 ELSE 1)
              /\ h.healthy <=> (~outageFired /\ ~errorFired)
              /\ outageFired =>
                    /\ \A i \in SystemViolations(t) : t[i][3] = <<"outage", "critical", "system">>
                    /\ Count(t, "log", "system_failure:outage") = 1
                    /\ Count(t, "log", "system_failure:error_rate") = 0
              /\ errorFired =>
                    /\ \A i \in SystemViolations(t) : t[i][3] = <<"error_rate", "medium", "system">>
                    /\ Count(t, "log", "system_failure:error_rate") = 1
                    /\ Count(t, "log", "system_failure:outage") = 0
              /\ h.healthy =>
                    /\ Count(t, "log", "system_failure:outage") = 0
                    /\ Count(t, "log", "system_failure:error_rate") = 0

C24_Witness ==
    \E r \in Requests :
       /\ pc[r] = "responded"
       /\ request_endpoint(request[r]) = "root"
       /\ health_result[r].failure_type = "outage"
       /\ Cardinality(SystemViolations(trace[r])) = 1
       /\ Count(trace[r], "metric", "SLO_VIOLATIONS.inc") = 2


\* C25: a request to metrics, version, slo_config or ai_logs_demo never
\* evaluates a fault decision: under every configuration and every draw its
\* status is 200, health_sim and simulate_latency are not called for it and
\* it increments no slo_violations_total counter.
C25_NoFaultInjection ==
    \A r \in Requests :
       ( /\ pc[r] \in {"responded", "recorded", "done"}
         /\ request_endpoint(request[r]) \in {"metrics", "version", "slo_config",
                                              "ai_logs_demo"} ) =>
          /\ status[r] = 200
          /\ ~health_result[r].called
          /\ latency[r].events = <<>>
          /\ Count(trace[r], "metric", "SLO_VIOLATIONS.inc") = 0
          /\ Count(trace[r], "log", "system_failure:outage") = 0
          /\ Count(trace[r], "log", "system_failure:error_rate") = 0
          /\ \A i \in DOMAIN trace[r] :
                (trace[r][i][1] = "span" /\ trace[r][i][2] = "open") =>
                   trace[r][i][3] \notin {"health_simulation", "simulate_outage",
                                          "simulate_error_rate", "simulate_latency"}

C25_Witness ==
    \E r \in Requests :
       /\ SIM_BAD /\ ERROR_RATE_ENV = 100 /\ OUTAGE_SIMULATION /\ LATENCY_SIMULATION
       /\ Completed(r)
       /\ request_endpoint(request[r]) = "version"
       /\ status[r] = 200


\* C26: the SLO fields of one http_request event agree for every duration
\* and status code: performance.is_slo_compliant is true exactly when
\* metrics.exceeds_slo is false, and performance.latency_category and
\* metrics.latency_category name the same category.
C26_SloFieldsAgree ==
    http_request_event.event_type = "http_request" =>
       /\ http_request_event.performance.is_slo_compliant
             <=> ~http_request_event.metrics.exceeds_slo
       /\ http_request_event.performance.latency_category
             = http_request_event.metrics.latency_category

====
